---- MODULE Spec2Model ----
(***************************************************************************)
(* Gym-Manager: the Express resource API (workouts, exercises) behind the  *)
(* bearer-token gate, over the hosted row store (Spec), and the React      *)
(* single-page frontend that calls it (SpecUI).                            *)
(***************************************************************************)
EXTENDS Integers, Sequences, FiniteSets, TLC

VARIABLES
    workouts,   \* rows of table "workouts"
    exercises,  \* rows of table "exercises"
    nextWid,    \* next workout id the store hands out (ids are never reused);
                \* also the time of table "workouts", one tick per insert
    nextEid,    \* the same for table "exercises"
    rls,        \* whether the store applies a row-level policy to the token
    pending,    \* add-exercise requests between ownership check and insert
    res,        \* the response sent last, with the request it answers
    \* ---- the frontend (App.jsx): React state of the mounted components
    appUser,          \* App: user ("" for null)
    authLoading,      \* Auth: loading
    dashLoading,      \* Dashboard: loading
    dashWorkouts,     \* Dashboard: workouts (ids of the listed workouts)
    selectedWorkout,  \* Dashboard: selectedWorkout (0 for null)
    showCreateModal,  \* Dashboard: showCreateModal
    createLoading,    \* CreateWorkoutModal: loading
    wlDeleting,       \* WorkoutsList: deleting (0 for null)
    detailFor,        \* WorkoutDetail: the workout it was mounted with (0: not mounted)
    detailLoading,    \* WorkoutDetail: loading
    detailExercises,  \* WorkoutDetail: exercises (ids of the listed exercises)
    addLoading,       \* ExerciseForm: loading
    elDeleting,       \* ExercisesList: deleting (0 for null)
    requests,         \* HTTP requests of the frontend that are in flight
    failed            \* a request of the workout detail view has failed

store == <<workouts, exercises, nextWid, nextEid>>
ui == <<appUser, authLoading, dashLoading, dashWorkouts, selectedWorkout, showCreateModal,
        createLoading, wlDeleting, detailFor, detailLoading, detailExercises, addLoading,
        elDeleting, requests, failed>>
vars == <<workouts, exercises, nextWid, nextEid, rls, pending, res, ui>>

\* ---------------------------------------------------------------- bounds
MaxWorkouts == 2
MaxExercises == 2
MaxPending == 1
MaxInFlight == 2

\* ------------------------------------------------------- JSON values
Undefined == [t |-> "undefined", n |-> 0, s |-> ""]
Null == [t |-> "null", n |-> 0, s |-> ""]
NaN == [t |-> "nan", n |-> 0, s |-> ""]
Num(n) == [t |-> "number", n |-> n, s |-> ""]
Str(s) == [t |-> "string", n |-> 0, s |-> s]

\* JavaScript falsiness, the sense of `!v`
Falsy(v) ==
    \/ v.t \in {"undefined", "null", "nan"}
    \/ v.t = "number" /\ v.n = 0
    \/ v.t = "string" /\ v.s = ""

\* the numerals that occur in request bodies
Numeral(s) ==
    CASE s = "0" -> Num(0)
      [] s = "4" -> Num(4)
      [] s = "20" -> Num(20)
      [] OTHER -> NaN

\* parseInt(v) / parseFloat(v) on the integer-valued inputs of the model
parseInt(v) ==
    CASE v.t = "number" -> v
      [] v.t = "string" -> Numeral(v.s)
      [] OTHER -> NaN

parseFloat(v) ==
    CASE v.t = "number" -> v
      [] v.t = "string" -> Numeral(v.s)
      [] OTHER -> NaN

\* JSON.stringify of a payload value: NaN is written as null
Json(v) == IF v.t = "nan" THEN Null ELSE v

\* a key whose value is undefined is left out of the payload, so an update
\* leaves that column as it was
Column(old, v) == IF v.t = "undefined" THEN old ELSE Json(v)

\* a key column (id, workout_id, user_id) under an update: it takes the
\* payload's value only if the payload names the column
IdColumn(old, changes, key) ==
    IF key \in DOMAIN changes /\ changes[key].t = "number" THEN changes[key].n ELSE old

OwnerColumn(old, changes) ==
    IF "user_id" \in DOMAIN changes /\ changes.user_id.t = "string"
    THEN changes.user_id.s ELSE old

\* ------------------------------------------------------- requests
Users == {"A", "B"}
NoHeader == <<>>
Bearer(tok) == <<"Bearer", tok>>
Headers == {NoHeader, <<"Bearer">>, Bearer("tokA"), Bearer("tokB"), Bearer("expired")}
IdpOutcomes == {"ok", "throws"}

WorkoutIds == 1..MaxWorkouts
ExerciseIds == 1..MaxExercises

WorkoutBodies ==
    {[name |-> Str("Leg Day"), workout_date |-> Str("2024-01-01"), notes |-> Str("")],
     [name |-> Str("Leg Day"), workout_date |-> Str("2024-01-02"), notes |-> Str("PR")],
     [name |-> Undefined, workout_date |-> Str("2024-01-01"), notes |-> Undefined],
     [name |-> Str("Leg Day"), workout_date |-> Undefined, notes |-> Undefined]}
WorkoutPatches ==
    {[name |-> Str("Push Day"), workout_date |-> Undefined, notes |-> Null,
      id |-> Num(2), user_id |-> Str("B")]}

ExerciseBodies ==
    {[exercise_name |-> Str("Squat"), sets |-> Num(3), reps |-> Str("4"), weight |-> Num(0)],
     [exercise_name |-> Str("Squat"), sets |-> Num(3), reps |-> Str("4"), weight |-> Undefined],
     [exercise_name |-> Undefined, sets |-> Num(3), reps |-> Str("4"), weight |-> Num(0)],
     [exercise_name |-> Str("Squat"), sets |-> Num(0), reps |-> Str("4"), weight |-> Num(0)],
     [exercise_name |-> Str("Squat"), sets |-> Num(3), reps |-> Undefined, weight |-> Num(0)]}
ExercisePatches ==
    {[exercise_name |-> Str("Lunge"), sets |-> Str("4"), reps |-> Num(3),
      weight |-> Str("20"), id |-> Num(2), workout_id |-> Num(2), user_id |-> Str("B")]}

NoBody == [none |-> TRUE]
NoData == [none |-> TRUE]

ProtectedRoutes ==
    {"GET /api/workouts", "GET /api/workouts/:id", "POST /api/workouts",
     "PATCH /api/workouts/:id", "DELETE /api/workouts/:id",
     "GET /api/workouts/:workoutId/exercises",
     "POST /api/workouts/:workoutId/exercises",
     "PATCH /api/exercises/:id", "DELETE /api/exercises/:id"}

\* ------------------------------------------------------- auth gate
\* supabaseAdmin.auth.getUser(token): the identity service's verdict
getUser(token) ==
    CASE token = "tokA" -> [user |-> "A", error |-> FALSE]
      [] token = "tokB" -> [user |-> "B", error |-> FALSE]
      [] OTHER -> [user |-> "", error |-> TRUE]

\* authHeader.split(' ')[1]
TokenOf(h) == IF Len(h) >= 2 THEN h[2] ELSE ""

\* the gate with the header check gone: a request without a header runs as
\* the holder of a default token
authenticateUserDefaultToken(h, idp) ==
    IF idp = "throws"
    THEN [status |-> 500, error |-> "Authentication failed", user |-> ""]
    ELSE IF h = NoHeader
    THEN [status |-> 0, error |-> "", user |-> "A"]
    ELSE IF getUser(TokenOf(h)).error \/ getUser(TokenOf(h)).user = ""
    THEN [status |-> 401, error |-> "Invalid token", user |-> ""]
    ELSE [status |-> 0, error |-> "", user |-> getUser(TokenOf(h)).user]

\* the gate with the catch block answering like a rejected token
authenticateUserThrowIs401(h, idp) ==
    IF h = NoHeader
    THEN [status |-> 401, error |-> "No token provided", user |-> ""]
    ELSE IF TokenOf(h) = ""
    THEN [status |-> 401, error |-> "Invalid authorization format", user |-> ""]
    ELSE IF idp = "throws" \/ getUser(TokenOf(h)).error \/ getUser(TokenOf(h)).user = ""
    THEN [status |-> 401, error |-> "Invalid token", user |-> ""]
    ELSE [status |-> 0, error |-> "", user |-> getUser(TokenOf(h)).user]

\* status 0 stands for next(): the handler runs with req.user = user
authenticateUser(h, idp) ==
    IF h = NoHeader
    THEN [status |-> 401, error |-> "No token provided", user |-> ""]
    ELSE IF TokenOf(h) = ""
    THEN [status |-> 401, error |-> "Invalid authorization format", user |-> ""]
    ELSE IF idp = "throws"
    THEN [status |-> 500, error |-> "Authentication failed", user |-> ""]
    ELSE IF getUser(TokenOf(h)).error \/ getUser(TokenOf(h)).user = ""
    THEN [status |-> 401, error |-> "Invalid token", user |-> ""]
    ELSE [status |-> 0, error |-> "", user |-> getUser(TokenOf(h)).user]

Authed(h, idp) == authenticateUser(h, idp).status = 0
UserOf(h, idp) == authenticateUser(h, idp).user

Response(route, h, idp, user, id, body, status, error, data, queries, outage) ==
    [route |-> route, header |-> h, idp |-> idp, user |-> user, id |-> id, body |-> body,
     status |-> status, error |-> error, data |-> data,
     queries |-> queries, outage |-> outage]

\* ------------------------------------------------------- the store
\* rows the token-scoped client can see
Visible(rows, uid) == IF rls THEN {r \in rows : r.user_id = uid} ELSE rows

\* .maybeSingle() in place of .single(): no row is no error
MaybeSingle(rows) ==
    IF Cardinality(rows) = 1
    THEN [found |-> TRUE, error |-> FALSE, row |-> CHOOSE r \in rows : TRUE]
    ELSE [found |-> FALSE, error |-> Cardinality(rows) > 1, row |-> Null]

\* .single(): exactly one row, or an error
Single(rows) ==
    IF Cardinality(rows) = 1
    THEN [found |-> TRUE, error |-> FALSE, row |-> CHOOSE r \in rows : TRUE]
    ELSE [found |-> FALSE, error |-> TRUE, row |-> Null]

\* nothing sent since the server last turned to a new request
Quiet == Response("", NoHeader, "ok", "", 0, NoBody, 0, "", NoData, 0, FALSE)

TypeOK ==
    /\ nextWid \in 1..(MaxWorkouts + 1)
    /\ nextEid \in 1..(MaxExercises + 1)
    /\ rls \in BOOLEAN
    /\ Cardinality(pending) <= MaxPending
    /\ \A w \in workouts : w.id \in 1..(nextWid - 1) /\ w.user_id \in Users
    /\ \A e \in exercises : e.id \in 1..(nextEid - 1) /\ e.user_id \in Users

\* the page after the session check found no session: the Auth form, nothing
\* else mounted (the values of unmounted components are those of a fresh mount)
InitView ==
    /\ appUser = ""
    /\ authLoading = FALSE
    /\ dashLoading = TRUE
    /\ dashWorkouts = {}
    /\ selectedWorkout = 0
    /\ showCreateModal = FALSE
    /\ createLoading = FALSE
    /\ wlDeleting = 0
    /\ detailFor = 0
    /\ detailLoading = TRUE
    /\ detailExercises = {}
    /\ addLoading = FALSE
    /\ elDeleting = 0
    /\ requests = {}
    /\ failed = FALSE

Init ==
    /\ workouts = {}
    /\ exercises = {}
    /\ nextWid = 1
    /\ nextEid = 1
    /\ rls \in BOOLEAN
    /\ pending = {}
    /\ res = Quiet
    /\ InitView

\* ------------------------------------------------------- rejected requests
\* authenticateUser answers by itself and next() is not called
AuthReject ==
    \E route \in ProtectedRoutes, h \in Headers, idp \in IdpOutcomes :
        /\ res = Quiet
        /\ ~Authed(h, idp)
        /\ res' = Response(route, h, idp, "", 0, NoBody, authenticateUser(h, idp).status,
                           authenticateUser(h, idp).error, NoData, 0, FALSE)
        /\ UNCHANGED <<store, rls, pending, ui>>

\* ------------------------------------------------------- workouts routes
\* workout_date as the store orders it
DateValue(v) ==
    CASE v.s = "2024-01-01" -> 1
      [] v.s = "2024-01-02" -> 2
      [] OTHER -> 0

SeqsOf(S) ==
    {q \in [1..Cardinality(S) -> S] : \A i, j \in 1..Cardinality(S) : i # j => q[i] # q[j]}

\* the same query without its .order('workout_date', ...)
WorkoutBeforeByCreation(a, b) == a.created_at >= b.created_at

\* .order('workout_date', desc).order('created_at', desc)
WorkoutBefore(a, b) ==
    \/ DateValue(a.workout_date) > DateValue(b.workout_date)
    \/ /\ DateValue(a.workout_date) = DateValue(b.workout_date)
       /\ a.created_at >= b.created_at

OrderWorkouts(S) ==
    {q \in SeqsOf(S) : \A i, j \in 1..Cardinality(S) : i < j => WorkoutBefore(q[i], q[j])}

\* .from('workouts') ... .eq('user_id', req.user.id)
SelectWorkoutsOf(uid) == {w \in Visible(workouts, uid) : w.user_id = uid}

\* the same query without its .eq('user_id', ...)
SelectWorkoutAnyOwner(id, uid) == {w \in Visible(workouts, uid) : w.id = id}

\* the same query without its .eq('id', ...)
SelectWorkoutAnyId(id, uid) == {w \in Visible(workouts, uid) : w.user_id = uid}

\* .from('workouts') ... .eq('id', id).eq('user_id', req.user.id)
SelectWorkout(id, uid) == {w \in Visible(workouts, uid) : w.id = id /\ w.user_id = uid}

\* the embedded resource exercises:exercises(count)
CountEmbed(w, uid) ==
    <<[count |-> Cardinality({e \in Visible(exercises, uid) : e.workout_id = w.id})]>>

\* w.exercises.length in place of the embedded count
ExerciseCountLength(embed) == Len(embed)

\* w.exercises[0]?.count || 0
ExerciseCount(embed) ==
    IF Len(embed) = 0 THEN 0
    ELSE IF embed[1].count = 0 THEN 0 ELSE embed[1].count

\* { ...w, exercise_count }
WithCount(w, uid) ==
    [id |-> w.id, user_id |-> w.user_id, name |-> w.name,
     workout_date |-> w.workout_date, notes |-> w.notes,
     created_at |-> w.created_at, updated_at |-> w.updated_at,
     exercises |-> CountEmbed(w, uid),
     exercise_count |-> ExerciseCount(CountEmbed(w, uid))]

\* the embedded resource exercises (*)
WithExercises(w, uid) ==
    [id |-> w.id, user_id |-> w.user_id, name |-> w.name,
     workout_date |-> w.workout_date, notes |-> w.notes,
     created_at |-> w.created_at, updated_at |-> w.updated_at,
     exercises |-> {e \in Visible(exercises, uid) : e.workout_id = w.id}]

\* ON DELETE CASCADE of exercises.workout_id
Cascade(exs, gone) == {e \in exs : ~(\E w \in gone : w.id = e.workout_id)}

\* !name || !workout_date
MissingNameOnly(body) == Falsy(body.name)

MissingNameOrDate(body) == Falsy(body.name) \/ Falsy(body.workout_date)

\* .delete() with filters: the rows that match go, and no match is no error
DeleteRowsStrict(rows, hit) == [rows |-> rows \ hit, error |-> hit = {}]

DeleteRows(rows, hit) == [rows |-> rows \ hit, error |-> FALSE]

ListWorkouts ==
    \E h \in Headers, idp \in IdpOutcomes, outage \in BOOLEAN :
        /\ res = Quiet
        /\ Authed(h, idp)
        /\ LET uid == UserOf(h, idp)
               route == "GET /api/workouts"
           IN  IF outage
               THEN res' = Response(route, h, idp, uid, 0, NoBody, 500, "store error", NoData, 1, TRUE)
               ELSE \E q \in OrderWorkouts(SelectWorkoutsOf(uid)) :
                        res' = Response(route, h, idp, uid, 0, NoBody, 200, "",
                                        [workouts |-> [i \in DOMAIN q |-> WithCount(q[i], uid)]],
                                        1, FALSE)
        /\ UNCHANGED <<store, rls, pending, ui>>

GetWorkout ==
    \E h \in Headers, idp \in IdpOutcomes, id \in WorkoutIds, outage \in BOOLEAN :
        /\ res = Quiet
        /\ Authed(h, idp)
        /\ LET uid == UserOf(h, idp)
               route == "GET /api/workouts/:id"
               one == Single(SelectWorkout(id, uid))
           IN  IF outage
               THEN res' = Response(route, h, idp, uid, id, NoBody, 500, "store error", NoData, 1, TRUE)
               ELSE IF one.error
               THEN res' = Response(route, h, idp, uid, id, NoBody, 500, "PGRST116", NoData, 1, FALSE)
               ELSE IF ~one.found
               THEN res' = Response(route, h, idp, uid, id, NoBody, 404, "Workout not found", NoData, 1, FALSE)
               ELSE res' = Response(route, h, idp, uid, id, NoBody, 200, "",
                                    [workout |-> WithExercises(one.row, uid)], 1, FALSE)
        /\ UNCHANGED <<store, rls, pending, ui>>

CreateWorkout ==
    \E h \in Headers, idp \in IdpOutcomes, body \in WorkoutBodies, outage \in BOOLEAN :
        /\ res = Quiet
        /\ Authed(h, idp)
        /\ LET uid == UserOf(h, idp)
               route == "POST /api/workouts"
               row == [id |-> nextWid, user_id |-> uid, name |-> Json(body.name),
                       workout_date |-> Json(body.workout_date),
                       notes |-> IF Falsy(body.notes) THEN Null ELSE Json(body.notes),
                       created_at |-> nextWid, updated_at |-> nextWid]
           IN  IF MissingNameOrDate(body)
               THEN /\ res' = Response(route, h, idp, uid, 0, body, 400, "Name and date are required",
                                       NoData, 0, FALSE)
                    /\ UNCHANGED store
               ELSE IF outage
               THEN /\ res' = Response(route, h, idp, uid, 0, body, 500, "store error", NoData, 1, TRUE)
                    /\ UNCHANGED store
               ELSE /\ nextWid <= MaxWorkouts
                    /\ workouts' = workouts \cup {row}
                    /\ nextWid' = nextWid + 1
                    /\ res' = Response(route, h, idp, uid, 0, body, 201, "", [workout |-> row], 1, FALSE)
                    /\ UNCHANGED <<exercises, nextEid>>
        /\ UNCHANGED <<rls, pending, ui>>

\* .update(req.body) in place of the picked fields
WorkoutChangesWholeBody(body) == body

\* const { name, workout_date, notes } = req.body; .update({ name, workout_date, notes, ... })
WorkoutChanges(body) ==
    [name |-> body.name, workout_date |-> body.workout_date, notes |-> body.notes]

UpdateWorkout ==
    \E h \in Headers, idp \in IdpOutcomes, id \in WorkoutIds, body \in WorkoutPatches,
       outage \in BOOLEAN :
        /\ res = Quiet
        /\ Authed(h, idp)
        /\ LET uid == UserOf(h, idp)
               route == "PATCH /api/workouts/:id"
               hit == SelectWorkout(id, uid)
               changes == WorkoutChanges(body)
               upd(w) == [id |-> IdColumn(w.id, changes, "id"),
                          user_id |-> OwnerColumn(w.user_id, changes),
                          name |-> Column(w.name, changes.name),
                          workout_date |-> Column(w.workout_date, changes.workout_date),
                          notes |-> Column(w.notes, changes.notes),
                          created_at |-> w.created_at, updated_at |-> nextWid]
               after == {upd(w) : w \in hit}
           IN  IF outage
               THEN /\ res' = Response(route, h, idp, uid, id, body, 500, "store error", NoData, 1, TRUE)
                    /\ UNCHANGED store
               ELSE IF Single(after).error
               THEN /\ res' = Response(route, h, idp, uid, id, body, 500, "PGRST116", NoData, 1, FALSE)
                    /\ UNCHANGED store
               ELSE /\ workouts' = (workouts \ hit) \cup after
                    /\ res' = Response(route, h, idp, uid, id, body, 200, "",
                                       [workout |-> Single(after).row], 1, FALSE)
                    /\ UNCHANGED <<exercises, nextWid, nextEid>>
        /\ UNCHANGED <<rls, pending, ui>>

DeleteWorkout ==
    \E h \in Headers, idp \in IdpOutcomes, id \in WorkoutIds, outage \in BOOLEAN :
        /\ res = Quiet
        /\ Authed(h, idp)
        /\ LET uid == UserOf(h, idp)
               route == "DELETE /api/workouts/:id"
               hit == SelectWorkout(id, uid)
               del == DeleteRows(workouts, hit)
           IN  IF outage
               THEN /\ res' = Response(route, h, idp, uid, id, NoBody, 500, "store error", NoData, 1, TRUE)
                    /\ UNCHANGED store
               ELSE IF del.error
               THEN /\ res' = Response(route, h, idp, uid, id, NoBody, 500, "no rows", NoData, 1, FALSE)
                    /\ UNCHANGED store
               ELSE /\ workouts' = del.rows
                    /\ exercises' = Cascade(exercises, hit)
                    /\ res' = Response(route, h, idp, uid, id, NoBody, 200, "",
                                       [message |-> "Workout deleted successfully"], 1, FALSE)
                    /\ UNCHANGED <<nextWid, nextEid>>
        /\ UNCHANGED <<rls, pending, ui>>

\* ------------------------------------------------------- exercises routes
\* .order('created_at', { ascending: true })
OrderExercises(S) ==
    {q \in SeqsOf(S) :
        \A i, j \in 1..Cardinality(S) : i < j => q[i].created_at <= q[j].created_at}

\* the same query without its .eq('workout_id', ...)
SelectExercisesAny(wid, uid) == Visible(exercises, uid)

\* .from('exercises').select('*').eq('workout_id', workoutId)
SelectExercisesOf(wid, uid) == {e \in Visible(exercises, uid) : e.workout_id = wid}

\* .from('exercises') ... .eq('id', id)
SelectExercise(id, uid) == {e \in Visible(exercises, uid) : e.id = id}

\* exercises.workout_id references workouts(id)
ForeignKeyOk(wid) == \E w \in workouts : w.id = wid

\* !weight in place of weight === undefined
MissingFieldFalsyWeight(body) ==
    \/ Falsy(body.exercise_name)
    \/ Falsy(body.sets)
    \/ Falsy(body.reps)
    \/ Falsy(body.weight)

\* !exercise_name || !sets || !reps || weight === undefined
MissingField(body) ==
    \/ Falsy(body.exercise_name)
    \/ Falsy(body.sets)
    \/ Falsy(body.reps)
    \/ body.weight = Undefined

ListExercises ==
    \E h \in Headers, idp \in IdpOutcomes, wid \in WorkoutIds, outage \in BOOLEAN :
        /\ res = Quiet
        /\ Authed(h, idp)
        /\ LET uid == UserOf(h, idp)
               route == "GET /api/workouts/:workoutId/exercises"
           IN  IF outage
               THEN res' = Response(route, h, idp, uid, wid, NoBody, 500, "store error", NoData, 1, TRUE)
               ELSE \E q \in OrderExercises(SelectExercisesOf(wid, uid)) :
                        res' = Response(route, h, idp, uid, wid, NoBody, 200, "",
                                        [exercises |-> q], 1, FALSE)
        /\ UNCHANGED <<store, rls, pending, ui>>

\* validation and the ownership query; on success the insert is still to come
CreateExerciseCheck ==
    \E h \in Headers, idp \in IdpOutcomes, wid \in WorkoutIds, body \in ExerciseBodies,
       outage \in BOOLEAN :
        /\ res = Quiet
        /\ Authed(h, idp)
        /\ LET uid == UserOf(h, idp)
               route == "POST /api/workouts/:workoutId/exercises"
               one == Single(SelectWorkout(wid, uid))
           IN  IF MissingField(body)
               THEN /\ res' = Response(route, h, idp, uid, wid, body, 400, "All fields are required",
                                       NoData, 0, FALSE)
                    /\ UNCHANGED pending
               ELSE IF outage \/ ~one.found
               THEN /\ res' = Response(route, h, idp, uid, wid, body, 404, "Workout not found",
                                       NoData, 1, outage)
                    /\ UNCHANGED pending
               ELSE /\ Cardinality(pending) < MaxPending
                    /\ nextEid <= MaxExercises
                    /\ pending' = pending \cup
                           {[header |-> h, user |-> uid, workout_id |-> wid, body |-> body]}
                    /\ UNCHANGED res
        /\ UNCHANGED <<store, rls, ui>>

CreateExerciseInsert ==
    \E p \in pending, outage \in BOOLEAN :
        /\ res = Quiet
        /\ pending' = pending \ {p}
        /\ LET route == "POST /api/workouts/:workoutId/exercises"
               row == [id |-> nextEid, workout_id |-> p.workout_id, user_id |-> p.user,
                       exercise_name |-> Json(p.body.exercise_name),
                       sets |-> Json(parseInt(p.body.sets)),
                       reps |-> Json(parseInt(p.body.reps)),
                       weight |-> Json(parseFloat(p.body.weight)),
                       created_at |-> nextEid]
           IN  IF outage
               THEN /\ res' = Response(route, p.header, "ok", p.user, p.workout_id, p.body, 500,
                                       "store error", NoData, 2, TRUE)
                    /\ UNCHANGED store
               ELSE IF ~ForeignKeyOk(p.workout_id)
               THEN /\ res' = Response(route, p.header, "ok", p.user, p.workout_id, p.body, 500,
                                       "23503", NoData, 2, FALSE)
                    /\ UNCHANGED store
               ELSE /\ nextEid <= MaxExercises
                    /\ exercises' = exercises \cup {row}
                    /\ nextEid' = nextEid + 1
                    /\ res' = Response(route, p.header, "ok", p.user, p.workout_id, p.body, 201, "",
                                       [exercise |-> row], 2, FALSE)
                    /\ UNCHANGED <<workouts, nextWid>>
        /\ UNCHANGED <<rls, ui>>

\* const { exercise_name, sets, reps, weight } = req.body; .update({ ... })
ExerciseChanges(body) ==
    [exercise_name |-> body.exercise_name, sets |-> parseInt(body.sets),
     reps |-> parseInt(body.reps), weight |-> parseFloat(body.weight)]

UpdateExercise ==
    \E h \in Headers, idp \in IdpOutcomes, id \in ExerciseIds, body \in ExercisePatches,
       outage \in BOOLEAN :
        /\ res = Quiet
        /\ Authed(h, idp)
        /\ LET uid == UserOf(h, idp)
               route == "PATCH /api/exercises/:id"
               hit == SelectExercise(id, uid)
               changes == ExerciseChanges(body)
               upd(e) == [id |-> IdColumn(e.id, changes, "id"),
                          workout_id |-> IdColumn(e.workout_id, changes, "workout_id"),
                          user_id |-> OwnerColumn(e.user_id, changes),
                          exercise_name |-> Column(e.exercise_name, changes.exercise_name),
                          sets |-> Column(e.sets, changes.sets),
                          reps |-> Column(e.reps, changes.reps),
                          weight |-> Column(e.weight, changes.weight),
                          created_at |-> e.created_at]
               after == {upd(e) : e \in hit}
           IN  IF outage
               THEN /\ res' = Response(route, h, idp, uid, id, body, 500, "store error", NoData, 1, TRUE)
                    /\ UNCHANGED store
               ELSE IF Single(after).error
               THEN /\ res' = Response(route, h, idp, uid, id, body, 500, "PGRST116", NoData, 1, FALSE)
                    /\ UNCHANGED store
               ELSE /\ exercises' = (exercises \ hit) \cup after
                    /\ res' = Response(route, h, idp, uid, id, body, 200, "",
                                       [exercise |-> Single(after).row], 1, FALSE)
                    /\ UNCHANGED <<workouts, nextWid, nextEid>>
        /\ UNCHANGED <<rls, pending, ui>>

DeleteExercise ==
    \E h \in Headers, idp \in IdpOutcomes, id \in ExerciseIds, outage \in BOOLEAN :
        /\ res = Quiet
        /\ Authed(h, idp)
        /\ LET uid == UserOf(h, idp)
               route == "DELETE /api/exercises/:id"
               hit == SelectExercise(id, uid)
               del == DeleteRows(exercises, hit)
           IN  IF outage
               THEN /\ res' = Response(route, h, idp, uid, id, NoBody, 500, "store error", NoData, 1, TRUE)
                    /\ UNCHANGED store
               ELSE IF del.error
               THEN /\ res' = Response(route, h, idp, uid, id, NoBody, 500, "no rows", NoData, 1, FALSE)
                    /\ UNCHANGED store
               ELSE /\ exercises' = del.rows
                    /\ res' = Response(route, h, idp, uid, id, NoBody, 200, "",
                                       [message |-> "Exercise deleted successfully"], 1, FALSE)
                    /\ UNCHANGED <<workouts, nextWid, nextEid>>
        /\ UNCHANGED <<rls, pending, ui>>

\* the response has left; the server turns to the next request
Idle ==
    /\ res # Quiet
    /\ res' = Quiet
    /\ UNCHANGED <<store, rls, pending, ui>>

Next ==
    \/ Idle
    \/ AuthReject
    \/ ListWorkouts
    \/ GetWorkout
    \/ CreateWorkout
    \/ UpdateWorkout
    \/ DeleteWorkout
    \/ ListExercises
    \/ CreateExerciseCheck
    \/ CreateExerciseInsert
    \/ UpdateExercise
    \/ DeleteExercise


Spec == Init /\ [][Next]_vars

\* ======================================================= properties
\* req.user of the request a response answers ("" when the gate let nobody in)
Caller(r) == r.user

\* this step sent a response on the given route
Answers(route) == res' # res /\ res'.route = route /\ res'.user # ""

Owned(id, u) == \E w \in workouts : w.id = id /\ w.user_id = u

\* C1: on every protected route a request without an Authorization header is
\* answered 401, and the handler issues no store query and changes no row.
C1_NoHeaderIs401 ==
    [][(res' # res /\ res'.route \in ProtectedRoutes /\ res'.header = NoHeader)
        => (res'.status = 401 /\ res'.queries = 0 /\ UNCHANGED store)]_vars

\* a request without header was turned away while rows were stored
C1_Witness ==
    /\ res.route = "DELETE /api/workouts/:id"
    /\ res.header = NoHeader
    /\ res.status = 401
    /\ workouts # {}

\* C2: whatever a user does, the workouts of another user stay as they are,
\* and neither the workout list nor get(id) hands them out.
C2_WorkoutIsolation ==
    [][/\ \A w \in workouts : w.user_id # Caller(res') => w \in workouts'
       /\ \A w \in workouts' : w.user_id # Caller(res') => w \in workouts
       /\ (res'.route = "GET /api/workouts" /\ res'.status = 200)
            => \A i \in DOMAIN res'.data.workouts :
                   res'.data.workouts[i].user_id = Caller(res')
       /\ (res'.route = "GET /api/workouts/:id" /\ res'.status = 200)
            => res'.data.workout.user_id = Caller(res')]_vars

\* B asked to update A's workout, with no row-level policy in the store, and
\* the workout is still there
C2_Witness ==
    /\ ~rls
    /\ res.route = "PATCH /api/workouts/:id"
    /\ Caller(res) = "B"
    /\ \E w \in workouts : w.id = res.id /\ w.user_id = "A"

\* C3 (as claimed): whatever a user does on the exercise routes, the exercises
\* of another user are neither returned nor changed nor removed.
C3_ExerciseIsolation ==
    [][/\ \A e \in exercises : e.user_id # Caller(res') => e \in exercises'
       /\ \A e \in exercises' : e.user_id # Caller(res') => e \in exercises
       /\ (res'.route = "GET /api/workouts/:workoutId/exercises" /\ res'.status = 200)
            => \A i \in DOMAIN res'.data.exercises :
                   res'.data.exercises[i].user_id = Caller(res')]_vars

\* C4: create-workout without name or without workout_date is answered 400 and
\* stores nothing; with both, and the store accepting the insert, it is
\* answered 201 and exactly one workout, owned by the caller, is added.
C4_CreateWorkoutValidation ==
    [][Answers("POST /api/workouts") =>
        IF res'.body.name = Undefined \/ res'.body.workout_date = Undefined
        THEN res'.status = 400 /\ UNCHANGED store
        ELSE IF res'.outage
        THEN res'.status = 500 /\ UNCHANGED store
        ELSE /\ res'.status = 201
             /\ exercises' = exercises
             /\ \E w \in workouts' :
                    /\ workouts' = workouts \cup {w}
                    /\ \A x \in workouts : x.id # w.id
                    /\ w.user_id = Caller(res')
                    /\ res'.data.workout = w]_vars

\* a create without workout_date was refused while a workout was stored
C4_Witness ==
    /\ res.route = "POST /api/workouts"
    /\ res.status = 400
    /\ res.body.workout_date = Undefined
    /\ workouts # {}

\* C5: add-exercise on a workout of the caller with name, sets and reps given
\* and weight 0 is answered 201 and stores one exercise of weight 0 (the store
\* accepting the insert); the same request without weight is answered 400 and
\* stores nothing.
C5_ZeroWeightAccepted ==
    [][Answers("POST /api/workouts/:workoutId/exercises") =>
        /\ res'.body.weight = Undefined => (res'.status = 400 /\ UNCHANGED store)
        /\ ( /\ ~Falsy(res'.body.exercise_name)
             /\ ~Falsy(res'.body.sets)
             /\ ~Falsy(res'.body.reps)
             /\ res'.body.weight = Num(0)
             /\ Owned(res'.id, Caller(res'))
             /\ ~res'.outage )
           => /\ res'.status = 201
              /\ workouts' = workouts
              /\ \E e \in exercises' :
                     /\ exercises' = exercises \cup {e}
                     /\ \A x \in exercises : x.id # e.id
                     /\ e.weight = Num(0)
                     /\ e.workout_id = res'.id]_vars

\* an exercise of weight 0 was stored and reported
C5_Witness ==
    /\ res.route = "POST /api/workouts/:workoutId/exercises"
    /\ res.status = 201
    /\ res.body.weight = Num(0)
    /\ \E e \in exercises : e.id = res.data.exercise.id /\ e.weight = Num(0)

\* C6: once its owner has deleted a workout, no exercise row carries its id,
\* and the exercise list of a workout id that is gone is empty.
C6_CascadeOnDelete ==
    [][/\ ( /\ Answers("DELETE /api/workouts/:id")
            /\ res'.status = 200
            /\ Owned(res'.id, Caller(res')) )
          => /\ \A w \in workouts' : w.id # res'.id
             /\ \A e \in exercises' : e.workout_id # res'.id
       /\ ( /\ res'.route = "GET /api/workouts/:workoutId/exercises"
            /\ res'.status = 200
            /\ res'.id < nextWid'
            /\ \A w \in workouts' : w.id # res'.id )
          => res'.data.exercises = <<>>
       /\ \A e \in exercises' : \E w \in workouts' : w.id = e.workout_id]_vars

\* the only workout ever made had an exercise, is gone, and its list is empty
C6_Witness ==
    /\ res.route = "GET /api/workouts/:workoutId/exercises"
    /\ res.status = 200
    /\ res.id = 1
    /\ nextWid = 2
    /\ nextEid > 1
    /\ workouts = {}
    /\ exercises = {}
    /\ res.data.exercises = <<>>

\* C7: in the workout list every workout's exercise_count is the number of
\* stored exercise rows whose workout_id is that workout's id.
C7_ExerciseCount ==
    (res.route = "GET /api/workouts" /\ res.status = 200)
        => \A i \in DOMAIN res.data.workouts :
               res.data.workouts[i].exercise_count =
                   Cardinality({e \in exercises : e.workout_id = res.data.workouts[i].id})

\* a list that reports a workout with more than one exercise and one with none
C7_Witness ==
    /\ res.route = "GET /api/workouts"
    /\ res.status = 200
    /\ \E i \in DOMAIN res.data.workouts : res.data.workouts[i].exercise_count = 2
    /\ \E i \in DOMAIN res.data.workouts : res.data.workouts[i].exercise_count = 0

\* C8: delete-workout answers 200 with its success message whether or not a
\* row matched (the store answering), and leaves the store as it was when the
\* id names no workout of the caller.
C8_DeleteIdempotent ==
    [][(Answers("DELETE /api/workouts/:id") /\ ~res'.outage) =>
        /\ res'.status = 200
        /\ res'.data.message = "Workout deleted successfully"
        /\ ~Owned(res'.id, Caller(res')) => UNCHANGED store]_vars

\* a delete of an id that was handed out and is gone was answered 200
C8_Witness ==
    /\ res.route = "DELETE /api/workouts/:id"
    /\ res.status = 200
    /\ res.id < nextWid
    /\ workouts # {}
    /\ \A w \in workouts : w.id # res.id
    /\ \E e \in exercises : e.user_id # Caller(res)

\* C9 (as claimed): get(id) is answered 404 when the id names no workout of
\* the caller, and 200 with the workout and its exercises when it does.
C9_GetWorkoutStatus ==
    (res.route = "GET /api/workouts/:id" /\ res.user # "" /\ ~res.outage) =>
        IF Owned(res.id, Caller(res))
        THEN /\ res.status = 200
             /\ res.data.workout.id = res.id
             /\ res.data.workout.exercises = {e \in exercises : e.workout_id = res.id}
        ELSE res.status = 404

\* all four fields of an add-exercise body are there
WellFormed(body) ==
    /\ ~Falsy(body.exercise_name)
    /\ ~Falsy(body.sets)
    /\ ~Falsy(body.reps)
    /\ body.weight # Undefined

\* C10: an add-exercise request gets past the ownership query only if the
\* workout is the caller's, an exercise is inserted only for a request that
\* got past it, and a well-formed request for a workout id that names no
\* workout of the caller is answered 404 by that query and stores nothing.
C10_OwnershipBeforeInsert ==
    [][/\ \A p \in pending' : p \notin pending => Owned(p.workout_id, p.user)
       /\ \A e \in exercises' :
              (\A x \in exercises : x.id # e.id)
                  => \E p \in pending : p.workout_id = e.workout_id /\ p.user = e.user_id
       /\ ( /\ Answers("POST /api/workouts/:workoutId/exercises")
            /\ ~Owned(res'.id, Caller(res')) )
          => /\ res'.status # 201
             /\ UNCHANGED store
             /\ (WellFormed(res'.body) /\ res'.queries = 1) => res'.status = 404]_vars

\* B asked to add an exercise to A's workout and got 404
C10_Witness ==
    /\ ~rls
    /\ res.route = "POST /api/workouts/:workoutId/exercises"
    /\ res.status = 404
    /\ Caller(res) = "B"
    /\ Owned(res.id, "A")

\* the gate answered by itself: no user attached, no query, no row changed
TurnedAway == res'.user = "" /\ res'.queries = 0 /\ UNCHANGED store

\* C11: a header without token segment is answered 401 with the format
\* error, a token the identity service rejects 401 with the invalid-token
\* error, an identity-service call that throws 500, and in none of these the
\* handler runs; a token the service resolves runs the handler as its user.
C11_AuthGateOutcomes ==
    [][(res' # res /\ res'.route \in ProtectedRoutes) =>
        /\ (res'.header # NoHeader /\ Len(res'.header) < 2)
            => /\ res'.status = 401
               /\ res'.error = "Invalid authorization format"
               /\ TurnedAway
        /\ (Len(res'.header) >= 2 /\ res'.idp = "throws")
            => /\ res'.status = 500
               /\ res'.error = "Authentication failed"
               /\ TurnedAway
        /\ (Len(res'.header) >= 2 /\ res'.idp = "ok"
                /\ res'.header[2] \notin {"tokA", "tokB"})
            => /\ res'.status = 401
               /\ res'.error = "Invalid token"
               /\ TurnedAway
        /\ (res'.idp = "ok" /\ res'.header = Bearer("tokA")) => res'.user = "A"
        /\ (res'.idp = "ok" /\ res'.header = Bearer("tokB")) => res'.user = "B"
        /\ res'.user # "" => (res'.idp = "ok" /\ res'.header \in {Bearer("tokA"), Bearer("tokB")})]_vars

\* the identity service threw on A's good token while A had a workout stored
C11_Witness ==
    /\ res.route = "DELETE /api/workouts/:id"
    /\ res.header = Bearer("tokA")
    /\ res.idp = "throws"
    /\ res.status = 500
    /\ \E w \in workouts : w.user_id = "A"

\* C12: a workout update on an id the caller has no workout under is answered
\* with an error status and an error message and leaves every stored row as
\* it was; on a workout of the caller it is answered 200 with the stored row,
\* in which each of name, workout_date and notes the body carries has the
\* body's value, updated_at is the time of the update, and nothing else moved.
C12_UpdateWorkout ==
    [][(Answers("PATCH /api/workouts/:id") /\ ~res'.outage) =>
        IF Owned(res'.id, Caller(res'))
        THEN /\ res'.status = 200
             /\ \E old \in workouts : \E new \in workouts' :
                  /\ old.id = res'.id /\ new.id = res'.id
                  /\ res'.data.workout = new
                  /\ workouts' \ {new} = workouts \ {old}
                  /\ new.user_id = old.user_id /\ new.created_at = old.created_at
                  /\ new.updated_at = nextWid
                  /\ new.name = (IF res'.body.name = Undefined THEN old.name ELSE res'.body.name)
                  /\ new.workout_date = (IF res'.body.workout_date = Undefined
                                         THEN old.workout_date ELSE res'.body.workout_date)
                  /\ new.notes = (IF res'.body.notes = Undefined THEN old.notes ELSE res'.body.notes)
             /\ UNCHANGED <<exercises, nextWid, nextEid>>
        ELSE /\ res'.status >= 400
             /\ res'.error # ""
             /\ res'.data = NoData
             /\ UNCHANGED store]_vars

\* a user's update of another user's workout was refused under a store
\* without row policy, and the workout still carries the name it was made with
C12_Witness ==
    /\ ~rls
    /\ res.route = "PATCH /api/workouts/:id"
    /\ Caller(res) = "B"
    /\ res.status = 500
    /\ ~res.outage
    /\ \E w \in workouts : w.id = res.id /\ w.user_id = "A" /\ w.name = Str("Leg Day")
    /\ \E w \in workouts : w.user_id = "B" /\ w.name = Str("Push Day")

\* C13 (as claimed): whenever a store query of a protected route handler
\* returned an error, the response is 500 and carries the store's message.
C13_StoreErrorIs500 ==
    (res.user # "" /\ res.outage) => (res.status = 500 /\ res.error = "store error")

\* the stored workout a listed row stands for
RowOf(item) ==
    \E w \in workouts :
        /\ w.id = item.id /\ w.user_id = item.user_id /\ w.name = item.name
        /\ w.workout_date = item.workout_date /\ w.notes = item.notes
        /\ w.created_at = item.created_at /\ w.updated_at = item.updated_at

\* C14: the workout list holds each workout of the caller once and no other
\* row, later workout_date first and, on equal dates, later created_at first;
\* the exercise list holds rows of the given workout only, each once, every
\* one of them the caller owns, earlier created_at first.
C14_ListOrder ==
    /\ (res.route = "GET /api/workouts" /\ res.status = 200) =>
         LET q == res.data.workouts
         IN  /\ \A i \in DOMAIN q : RowOf(q[i]) /\ q[i].user_id = Caller(res)
             /\ \A w \in workouts : w.user_id = Caller(res) => \E i \in DOMAIN q : q[i].id = w.id
             /\ \A i, j \in DOMAIN q : i < j =>
                  /\ q[i].id # q[j].id
                  /\ \/ DateValue(q[i].workout_date) > DateValue(q[j].workout_date)
                     \/ /\ q[i].workout_date = q[j].workout_date
                        /\ q[i].created_at > q[j].created_at
    /\ (res.route = "GET /api/workouts/:workoutId/exercises" /\ res.status = 200) =>
         LET q == res.data.exercises
         IN  /\ \A i \in DOMAIN q : q[i] \in exercises /\ q[i].workout_id = res.id
             /\ \A e \in exercises :
                    (e.workout_id = res.id /\ e.user_id = Caller(res))
                        => \E i \in DOMAIN q : q[i] = e
             /\ \A i, j \in DOMAIN q : i < j => q[i].created_at < q[j].created_at

\* a list of two workouts in which the one made first comes first, because
\* its date is the later one
C14_Witness ==
    /\ res.route = "GET /api/workouts"
    /\ res.status = 200
    /\ DOMAIN res.data.workouts = 1..2
    /\ res.data.workouts[1].created_at < res.data.workouts[2].created_at
    /\ res.data.workouts[1].workout_date = Str("2024-01-02")
    /\ exercises # {}

\* C17: in every store state an exercise carries the user_id of the workout
\* its workout_id names, and no step changes the id or user_id of a workout
\* or the id, workout_id or user_id of an exercise: ids stay unique, and a row
\* still stored under its id has the owner and the parent it had before.
C17_KeysKept ==
    [][/\ \A w \in workouts : \A v \in workouts' : v.id = w.id => v.user_id = w.user_id
       /\ \A e \in exercises : \A f \in exercises' :
              f.id = e.id => (f.user_id = e.user_id /\ f.workout_id = e.workout_id)
       /\ \A w \in workouts' : \A v \in workouts' : v.id = w.id => v = w
       /\ \A e \in exercises' : \A f \in exercises' : f.id = e.id => f = e
       /\ \A e \in exercises' : \A w \in workouts' :
              w.id = e.workout_id => e.user_id = w.user_id
       /\ Answers("PATCH /api/workouts/:id") =>
              {w.id : w \in workouts'} = {w.id : w \in workouts}
       /\ Answers("PATCH /api/exercises/:id") =>
              {e.id : e \in exercises'} = {e.id : e \in exercises}]_vars

\* user A's exercise under A's workout was updated with a body that names
\* another id, workout and owner, while B has a workout of that other id
C17_Witness ==
    /\ res.route = "PATCH /api/exercises/:id"
    /\ res.status = 200
    /\ res.body.user_id = Str("B") /\ res.body.workout_id = Num(2)
    /\ res.data.exercise.exercise_name = Str("Lunge")
    /\ res.data.exercise.user_id = "A"
    /\ res.data.exercise \in exercises
    /\ \E w \in workouts : w.id = 2 /\ w.user_id = "B"

\* ======================================================= the frontend
\* One signed-in user ("A") works the page. A handler runs up to its await in
\* one step; the server's handling of the request and the continuation after
\* the await are steps of their own, so responses may come back in any order.
authVars == <<appUser, authLoading>>
dashVars == <<dashLoading, dashWorkouts, selectedWorkout, showCreateModal, createLoading,
              wlDeleting>>
detailVars == <<detailFor, detailLoading, detailExercises, addLoading, elDeleting>>
backend == <<rls, pending, res>>

\* the requests each component sends
AuthKinds == {"auth"}
ModalKinds == {"createWorkout"}
WorkoutsListKinds == {"deleteWorkout"}
DetailKinds == {"fetchExercises", "addExercise", "deleteExercise"}

\* a request in flight: what was asked (kind, target), the list the handler's
\* closure captured when it was called (seen), whether the component that sent
\* it is still mounted (live), and once the server has handled it (phase
\* "served") the outcome (ok) and the ids in the response (reply)
Request(slot, kind, target, seen) ==
    [slot |-> slot, kind |-> kind, target |-> target, seen |-> seen, live |-> TRUE,
     phase |-> "sent", ok |-> TRUE, reply |-> {}]

CanSend(rs) == Cardinality(rs) < MaxInFlight

FreeSlot(rs) == CHOOSE n \in 1..MaxInFlight :
                    /\ \A r \in rs : r.slot # n
                    /\ \A m \in 1..(n - 1) : \E r \in rs : r.slot = m

Sent(rs, kind, target, seen) == rs \cup {Request(FreeSlot(rs), kind, target, seen)}

\* a component unmounts: what its requests set on it later is lost
Orphan(rs, kinds) == {IF r.kind \in kinds THEN [r EXCEPT !.live = FALSE] ELSE r : r \in rs}

Handled(r, ok, reply) ==
    requests' = (requests \ {r}) \cup {[r EXCEPT !.phase = "served", !.ok = ok, !.reply = reply]}

\* ------------------------------------------------------- Auth
\* handleAuth up to its await, with both fields filled in
handleAuth ==
    /\ CanSend(requests)
    /\ authLoading' = TRUE
    /\ requests' = Sent(requests, "auth", 0, {})
    /\ UNCHANGED <<appUser, dashVars, detailVars, failed, store, backend>>

\* <button onClick={handleAuth} disabled={loading}>
ClickSignIn ==
    /\ appUser = ""
    /\ ~authLoading
    /\ handleAuth

\* onKeyPress={(e) => e.key === 'Enter' && handleAuth()} of either input
EnterSignIn ==
    /\ appUser = ""
    /\ handleAuth

\* handleAuth after its await; a session makes App render the Dashboard,
\* whose effect starts fetchWorkouts
AuthDone ==
    \E r \in requests :
        /\ r.kind = "auth" /\ r.phase = "served"
        /\ IF r.ok /\ appUser = ""
           THEN /\ appUser' = "A"
                /\ authLoading' = FALSE
                /\ dashLoading' = TRUE
                /\ dashWorkouts' = {}
                /\ requests' = Sent(Orphan(requests \ {r}, AuthKinds), "fetchWorkouts", 0, {})
           ELSE /\ authLoading' = IF r.live THEN FALSE ELSE authLoading
                /\ requests' = requests \ {r}
                /\ UNCHANGED <<appUser, dashLoading, dashWorkouts>>
        /\ UNCHANGED <<selectedWorkout, showCreateModal, createLoading, wlDeleting,
                       detailVars, failed, store, backend>>

\* ------------------------------------------------------- Dashboard
\* fetchWorkouts after its await
FetchWorkoutsDone ==
    \E r \in requests :
        /\ r.kind = "fetchWorkouts" /\ r.phase = "served"
        /\ dashWorkouts' = IF r.ok THEN r.reply ELSE dashWorkouts
        /\ dashLoading' = FALSE
        /\ requests' = requests \ {r}
        /\ UNCHANGED <<authVars, selectedWorkout, showCreateModal, createLoading, wlDeleting,
                       detailVars, failed, store, backend>>

\* the "New Workout" button, shown while no workout is selected
OpenModal ==
    /\ appUser # ""
    /\ selectedWorkout = 0
    /\ ~showCreateModal
    /\ showCreateModal' = TRUE
    /\ UNCHANGED <<authVars, dashLoading, dashWorkouts, selectedWorkout, createLoading,
                   wlDeleting, detailVars, requests, failed, store, backend>>

\* the modal's X button (onClose)
CloseModal ==
    /\ showCreateModal
    /\ showCreateModal' = FALSE
    /\ createLoading' = FALSE
    /\ requests' = Orphan(requests, ModalKinds)
    /\ UNCHANGED <<authVars, dashLoading, dashWorkouts, selectedWorkout, wlDeleting,
                   detailVars, failed, store, backend>>

\* handleCreate up to its await, with a name typed in:
\* <button onClick={handleCreate} disabled={loading}>
ClickCreate ==
    /\ showCreateModal
    /\ ~createLoading
    /\ CanSend(requests)
    /\ createLoading' = TRUE
    /\ requests' = Sent(requests, "createWorkout", 0, dashWorkouts)
    /\ UNCHANGED <<authVars, dashLoading, dashWorkouts, selectedWorkout, showCreateModal,
                   wlDeleting, detailVars, failed, store, backend>>

\* WorkoutDetail mounts for workout id: fresh state, and its effect starts
\* fetchExercises; the WorkoutsList it replaces unmounts
MountDetail(id, rs) ==
    /\ CanSend(rs)
    /\ selectedWorkout' = id
    /\ wlDeleting' = 0
    /\ detailFor' = id
    /\ detailLoading' = TRUE
    /\ detailExercises' = {}
    /\ addLoading' = FALSE
    /\ elDeleting' = 0
    /\ requests' = Sent(Orphan(rs, WorkoutsListKinds), "fetchExercises", id, {})

\* handleCreate after its await: onWorkoutCreated (handleWorkoutCreated with
\* the workouts its render had), onClose, setLoading(false)
CreateDone ==
    \E r \in requests :
        /\ r.kind = "createWorkout" /\ r.phase = "served"
        /\ IF r.ok
           THEN /\ dashWorkouts' = r.reply \cup r.seen
                /\ showCreateModal' = FALSE
                /\ createLoading' = FALSE
                /\ IF selectedWorkout = 0
                   THEN \E id \in r.reply : MountDetail(id, Orphan(requests \ {r}, ModalKinds))
                   ELSE /\ \E id \in r.reply : selectedWorkout' = id
                        /\ requests' = Orphan(requests \ {r}, ModalKinds)
                        /\ UNCHANGED <<wlDeleting, detailVars>>
           ELSE /\ createLoading' = IF r.live THEN FALSE ELSE createLoading
                /\ requests' = requests \ {r}
                /\ UNCHANGED <<dashWorkouts, selectedWorkout, showCreateModal, wlDeleting,
                               detailVars>>
        /\ UNCHANGED <<authVars, dashLoading, failed, store, backend>>

\* a workout card's onClick (onSelectWorkout); the modal's overlay covers the cards
OnSelectWorkout ==
    \E id \in dashWorkouts :
        /\ appUser # "" /\ selectedWorkout = 0 /\ ~dashLoading /\ ~showCreateModal
        /\ MountDetail(id, requests)
        /\ UNCHANGED <<authVars, dashLoading, dashWorkouts, showCreateModal, createLoading,
                       failed, store, backend>>

\* WorkoutsList.handleDelete up to its await, the confirm dialog accepted:
\* <button ... disabled={deleting === workout.id}>
ClickDeleteWorkout ==
    \E id \in dashWorkouts :
        /\ appUser # "" /\ selectedWorkout = 0 /\ ~dashLoading /\ ~showCreateModal
        /\ wlDeleting # id
        /\ CanSend(requests)
        /\ wlDeleting' = id
        /\ requests' = Sent(requests, "deleteWorkout", id, dashWorkouts)
        /\ UNCHANGED <<authVars, dashLoading, dashWorkouts, selectedWorkout, showCreateModal,
                       createLoading, detailVars, failed, store, backend>>

\* WorkoutsList.handleDelete after its await: onDeleteWorkout (handleDeleteWorkout
\* with the workouts its render had, and no workout selected in that render),
\* then setDeleting(null)
DeleteWorkoutDone ==
    \E r \in requests :
        /\ r.kind = "deleteWorkout" /\ r.phase = "served"
        /\ dashWorkouts' = IF r.ok THEN r.seen \ {r.target} ELSE dashWorkouts
        /\ wlDeleting' = IF r.live THEN 0 ELSE wlDeleting
        /\ requests' = requests \ {r}
        /\ UNCHANGED <<authVars, dashLoading, selectedWorkout, showCreateModal, createLoading,
                       detailVars, failed, store, backend>>

\* ------------------------------------------------------- WorkoutDetail
\* the "Back to Workouts" button: WorkoutDetail and its children unmount
OnBack ==
    /\ selectedWorkout # 0
    /\ selectedWorkout' = 0
    /\ detailFor' = 0
    /\ detailLoading' = TRUE
    /\ detailExercises' = {}
    /\ addLoading' = FALSE
    /\ elDeleting' = 0
    /\ requests' = Orphan(requests, DetailKinds)
    /\ UNCHANGED <<authVars, dashLoading, dashWorkouts, showCreateModal, createLoading,
                   wlDeleting, failed, store, backend>>

\* fetchExercises after its await
FetchExercisesDone ==
    \E r \in requests :
        /\ r.kind = "fetchExercises" /\ r.phase = "served"
        /\ detailExercises' = IF r.live /\ r.ok THEN r.reply ELSE detailExercises
        /\ detailLoading' = IF r.live THEN FALSE ELSE detailLoading
        /\ failed' = (failed \/ ~r.ok)
        /\ requests' = requests \ {r}
        /\ UNCHANGED <<authVars, dashVars, detailFor, addLoading, elDeleting, store, backend>>

\* ExerciseForm.handleAdd up to its await, with all four fields filled in:
\* <button onClick={handleAdd} disabled={loading}>
ClickAdd ==
    /\ selectedWorkout # 0
    /\ ~addLoading
    /\ CanSend(requests)
    /\ addLoading' = TRUE
    /\ requests' = Sent(requests, "addExercise", selectedWorkout, detailExercises)
    /\ UNCHANGED <<authVars, dashVars, detailFor, detailLoading, detailExercises, elDeleting,
                   failed, store, backend>>

\* handleAdd after its await: onExerciseAdded (handleExerciseAdded with the
\* exercises its render had), then setLoading(false)
AddDone ==
    \E r \in requests :
        /\ r.kind = "addExercise" /\ r.phase = "served"
        /\ detailExercises' = IF r.live /\ r.ok THEN r.seen \cup r.reply ELSE detailExercises
        /\ addLoading' = IF r.live THEN FALSE ELSE addLoading
        /\ failed' = (failed \/ ~r.ok)
        /\ requests' = requests \ {r}
        /\ UNCHANGED <<authVars, dashVars, detailFor, detailLoading, elDeleting, store, backend>>

\* ExercisesList.handleDelete up to its await, the confirm dialog accepted;
\* the list is rendered once loading is over:
\* <button ... disabled={deleting === exercise.id}>
ClickDeleteExercise ==
    \E id \in detailExercises :
        /\ selectedWorkout # 0
        /\ ~detailLoading
        /\ elDeleting # id
        /\ CanSend(requests)
        /\ elDeleting' = id
        /\ requests' = Sent(requests, "deleteExercise", id, detailExercises)
        /\ UNCHANGED <<authVars, dashVars, detailFor, detailLoading, detailExercises,
                       addLoading, failed, store, backend>>

\* handleDelete after its await: onDeleteExercise (handleDeleteExercise with
\* the exercises its render had), then setDeleting(null)
DeleteExerciseDone ==
    \E r \in requests :
        /\ r.kind = "deleteExercise" /\ r.phase = "served"
        /\ detailExercises' = IF r.live /\ r.ok THEN r.seen \ {r.target} ELSE detailExercises
        /\ elDeleting' = IF r.live THEN 0 ELSE elDeleting
        /\ failed' = (failed \/ ~r.ok)
        /\ requests' = requests \ {r}
        /\ UNCHANGED <<authVars, dashVars, detailFor, detailLoading, addLoading, store, backend>>

\* ------------------------------------------------------- the API, as the page meets it
\* supabase.auth.signInWithPassword grants a session
SrvSignIn ==
    \E r \in requests :
        /\ r.kind = "auth" /\ r.phase = "sent"
        /\ Handled(r, TRUE, {})
        /\ UNCHANGED <<authVars, dashVars, detailVars, failed, store, backend>>

\* GET /api/workouts
SrvListWorkouts ==
    \E r \in requests :
        /\ r.kind = "fetchWorkouts" /\ r.phase = "sent"
        /\ Handled(r, TRUE, {w.id : w \in {v \in workouts : v.user_id = "A"}})
        /\ UNCHANGED <<authVars, dashVars, detailVars, failed, store, backend>>

\* POST /api/workouts with { name, workout_date: date, notes: '' }
SrvCreateWorkout ==
    \E r \in requests :
        /\ r.kind = "createWorkout" /\ r.phase = "sent"
        /\ nextWid <= MaxWorkouts
        /\ workouts' = workouts \cup
               {[id |-> nextWid, user_id |-> "A", name |-> Str("Leg Day"),
                 workout_date |-> Str("2024-01-01"), notes |-> Null,
                 created_at |-> nextWid, updated_at |-> nextWid]}
        /\ nextWid' = nextWid + 1
        /\ Handled(r, TRUE, {nextWid})
        /\ UNCHANGED <<authVars, dashVars, detailVars, failed, exercises, nextEid, backend>>

\* DELETE /api/workouts/:id
SrvDeleteWorkout ==
    \E r \in requests :
        /\ r.kind = "deleteWorkout" /\ r.phase = "sent"
        /\ LET hit == {w \in workouts : w.id = r.target /\ w.user_id = "A"}
           IN  /\ workouts' = workouts \ hit
               /\ exercises' = Cascade(exercises, hit)
        /\ Handled(r, TRUE, {})
        /\ UNCHANGED <<authVars, dashVars, detailVars, failed, nextWid, nextEid, backend>>

\* GET /api/workouts/:workoutId/exercises
SrvListExercises ==
    \E r \in requests :
        /\ r.kind = "fetchExercises" /\ r.phase = "sent"
        /\ Handled(r, TRUE, {e.id : e \in {x \in exercises : x.workout_id = r.target}})
        /\ UNCHANGED <<authVars, dashVars, detailVars, failed, store, backend>>

\* POST /api/workouts/:workoutId/exercises with parsed sets, reps and weight;
\* 404 when the workout is not there
SrvCreateExercise ==
    \E r \in requests :
        /\ r.kind = "addExercise" /\ r.phase = "sent"
        /\ IF \E w \in workouts : w.id = r.target /\ w.user_id = "A"
           THEN /\ nextEid <= MaxExercises
                /\ exercises' = exercises \cup
                       {[id |-> nextEid, workout_id |-> r.target, user_id |-> "A",
                         exercise_name |-> Str("Squat"), sets |-> Num(3), reps |-> Num(4),
                         weight |-> Num(20), created_at |-> nextEid]}
                /\ nextEid' = nextEid + 1
                /\ Handled(r, TRUE, {nextEid})
           ELSE /\ Handled(r, FALSE, {})
                /\ UNCHANGED <<exercises, nextEid>>
        /\ UNCHANGED <<authVars, dashVars, detailVars, failed, workouts, nextWid, backend>>

\* DELETE /api/exercises/:id
SrvDeleteExercise ==
    \E r \in requests :
        /\ r.kind = "deleteExercise" /\ r.phase = "sent"
        /\ exercises' = {e \in exercises : e.id # r.target}
        /\ Handled(r, TRUE, {})
        /\ UNCHANGED <<authVars, dashVars, detailVars, failed, workouts, nextWid, nextEid,
                       backend>>

\* a request fails before the server acts on it (credentials refused, network
\* error, a 5xx): the client's promise rejects
SrvError ==
    \E r \in requests :
        /\ r.phase = "sent"
        /\ Handled(r, FALSE, {})
        /\ UNCHANGED <<authVars, dashVars, detailVars, failed, store, backend>>

InitUI ==
    /\ workouts = {}
    /\ exercises = {}
    /\ nextWid = 1
    /\ nextEid = 1
    /\ rls = TRUE
    /\ pending = {}
    /\ res = Quiet
    /\ InitView

NextUI ==
    \/ ClickSignIn
    \/ EnterSignIn
    \/ AuthDone
    \/ FetchWorkoutsDone
    \/ OpenModal
    \/ CloseModal
    \/ ClickCreate
    \/ CreateDone
    \/ OnSelectWorkout
    \/ ClickDeleteWorkout
    \/ DeleteWorkoutDone
    \/ OnBack
    \/ FetchExercisesDone
    \/ ClickAdd
    \/ AddDone
    \/ ClickDeleteExercise
    \/ DeleteExerciseDone
    \/ SrvSignIn
    \/ SrvListWorkouts
    \/ SrvCreateWorkout
    \/ SrvDeleteWorkout
    \/ SrvListExercises
    \/ SrvCreateExercise
    \/ SrvDeleteExercise
    \/ SrvError

SpecUI == InitUI /\ [][NextUI]_vars

TypeOKUI ==
    /\ appUser \in {"", "A"}
    /\ Cardinality(requests) <= MaxInFlight
    /\ \A r, q \in requests : r.slot = q.slot => r = q
    /\ selectedWorkout \in 0..MaxWorkouts
    /\ detailExercises \subseteq ExerciseIds
    /\ dashWorkouts \subseteq WorkoutIds
    /\ ~showCreateModal => ~createLoading
    /\ (selectedWorkout = 0) = (detailFor = 0)

\* the requests a form's action starts
FormKinds == {"auth", "createWorkout", "addExercise", "deleteWorkout", "deleteExercise"}

\* C15 (as claimed): while a request started by a form's action is in flight,
\* the same action of the same mounted form has no second request in flight:
\* no two requests of one kind and target are out at once.
C15_NoDuplicateSubmission ==
    \A r, q \in requests :
        (r.kind \in FormKinds /\ r.live /\ q.live /\ r.kind = q.kind /\ r.target = q.target)
            => r = q

\* C16 (as claimed): in the workout detail view, once every request has
\* completed and none has failed, the listed exercises are the server's
\* exercises of the workout the view was opened for.
C16_DetailShowsServerSet ==
    ( /\ selectedWorkout # 0
      /\ detailFor = selectedWorkout
      /\ \E w \in workouts : w.id = selectedWorkout
      /\ ~detailLoading
      /\ requests = {}
      /\ ~failed )
        => detailExercises = {e.id : e \in {x \in exercises : x.workout_id = selectedWorkout}}
====
